---- MODULE Spec2Model ----
(***************************************************************************)
(* Model of msg2api: the websocket Device API and User API of the          *)
(* mysmartgrid2 project.  One connection is modelled from the HTTP upgrade *)
(* to the return of Run: subprotocol negotiation (api_base.go), the        *)
(* challenge/HMAC handshake and the dispatch loop of DeviceServer, the     *)
(* dispatch loop of UserServer, and the owner's pushes and Close.          *)
(*                                                                         *)
(* Texts on the wire are sequences of one-character strings, byte strings  *)
(* are sequences of 0..255, Go errors are their Error() text ("" is nil),  *)
(* and a *Error is a record [kind, message] (kind "nil" is the nil         *)
(* pointer).                                                               *)
(***************************************************************************)
EXTENDS Integers, Sequences, FiniteSets, TLC

\* ------------------------------------------------------------------ bounds
\* Length in bytes of the challenge and of the digest (sha256.Size is 32).
Size == 1
\* Number of envelopes one connection receives successfully.
MaxCycles == 2
\* Number of pushes the owner sends on one connection.
MaxPush == 1
\* Largest reading of the millisecond clock.
MaxClock == 1
\* the largest magnitude of sinceUnixMs, in milliseconds
MaxMs == 2500

\* --------------------------------------------------------------- constants
deviceAPIProtocolV1 == "v2.device.msg"
userAPIProtocolV3 == "v5.user.msg"
otherProtocol == "v1.other.msg"

CloseGoingAway == 1001
CloseProtocolError == 1002

errProtocolNegotiationFailed == "protocol negotiation failed"
errAuthenticationFailed == "authentication failed"
errUpgrade == "websocket: bad handshake"
errRand == "rand: read failed"
errWrite == "write: broken pipe"
errClosed == "use of closed network connection"
errEOF == "websocket: close 1006 unexpected EOF"
errJSONSyntax == "invalid character 'x' looking for beginning of value"
errLength == "encoding/hex: odd length hex string"
errInvalidByte == "encoding/hex: invalid byte"
errJSONEnd == "unexpected end of JSON input"
errJSONType == "json: cannot unmarshal"

DeviceCommands == {"update", "addSensor", "removeSensor", "updateMetadata"}
UserCommands == {"getValues"}
AllCommands == DeviceCommands \cup UserCommands \cup {"bogus"}

\* ------------------------------------------------------------ encoding/hex
HexDigits == <<"0", "1", "2", "3", "4", "5", "6", "7",
               "8", "9", "a", "b", "c", "d", "e", "f">>

EncodeByte(b) == <<HexDigits[(b \div 16) + 1], HexDigits[(b % 16) + 1]>>

RECURSIVE EncodeToString(_)
EncodeToString(bytes) ==
    IF bytes = <<>> THEN <<>>
    ELSE EncodeByte(Head(bytes)) \o EncodeToString(Tail(bytes))

\* value of one hex character, -1 when it is not a hex digit
fromHexChar(c) ==
    CASE c = "0" -> 0  [] c = "1" -> 1  [] c = "2" -> 2  [] c = "3" -> 3
      [] c = "4" -> 4  [] c = "5" -> 5  [] c = "6" -> 6  [] c = "7" -> 7
      [] c = "8" -> 8  [] c = "9" -> 9
      [] c = "a" -> 10 [] c = "b" -> 11 [] c = "c" -> 12
      [] c = "d" -> 13 [] c = "e" -> 14 [] c = "f" -> 15
      [] c = "A" -> 10 [] c = "B" -> 11 [] c = "C" -> 12
      [] c = "D" -> 13 [] c = "E" -> 14 [] c = "F" -> 15
      [] OTHER -> -1

RECURSIVE DecodePairs(_)
DecodePairs(s) ==
    IF Len(s) < 2 THEN [err |-> "", bytes |-> <<>>]
    ELSE LET a == fromHexChar(s[1])
             b == fromHexChar(s[2])
             rest == DecodePairs(SubSeq(s, 3, Len(s)))
         IN  IF a < 0 \/ b < 0 THEN [err |-> errInvalidByte, bytes |-> <<>>]
             ELSE IF rest.err # "" THEN rest
             ELSE [err |-> "", bytes |-> <<a * 16 + b>> \o rest.bytes]

\* hex.DecodeString: pairs first, then the check of a dangling character
DecodeString(s) ==
    LET pairs == DecodePairs(s)
    IN  IF pairs.err # "" THEN pairs
        ELSE IF Len(s) % 2 = 1
             THEN IF fromHexChar(s[Len(s)]) < 0
                  THEN [err |-> errInvalidByte, bytes |-> <<>>]
                  ELSE [err |-> errLength, bytes |-> <<>>]
        ELSE pairs

\* ------------------------------------------------------------- crypto/hmac
RECURSIVE SumBytes(_)
SumBytes(bytes) ==
    IF bytes = <<>> THEN 0 ELSE Head(bytes) + SumBytes(Tail(bytes))

RECURSIVE WeightedSum(_, _)
WeightedSum(bytes, w) ==
    IF bytes = <<>> THEN 0
    ELSE Head(bytes) * w + WeightedSum(Tail(bytes), w + 2)

\* A keyed digest of Size bytes standing for HMAC-SHA-256: it depends on
\* every byte of the key and of the data.
Hmac(k, data) ==
    [i \in 1..Size |->
        (SumBytes(k) * 31 + WeightedSum(data, 3) + i * 13 + 5) % 256]

\* a comparison that looks at the lengths only
hmacEqualLen(a, b) == Len(a) = Len(b)

\* hmac.Equal: same length and same bytes
hmacEqual(a, b) == a = b

\* ----------------------------------------------------------- error values
Nil == [kind |-> "nil", message |-> ""]

badCommand(cmd) == [kind |-> "BadCommand", message |-> cmd]

invalidInput(desc, extra) == [kind |-> "InvalidInput", message |-> desc]

operationFailed(extra) == [kind |-> "OperationFailed", message |-> extra]

\* ---------------------------------------------------------- encoding/json
\* The args payloads a peer sends, by name: an object holding every field of
\* every argument shape with the right type, an object holding them with
\* wrong types, the empty object, a JSON string, null, and no args at all.
Payloads == {"full", "badTypes", "empty", "str", "null", "absent"}

JSONKind(p) ==
    CASE p = "str" -> "string"
      [] p = "null" -> "null"
      [] p = "absent" -> "absent"
      [] OTHER -> "object"

\* JSON type of field f of payload p ("missing" when p has no such field)
FieldType(p, f) ==
    CASE p = "full" ->
           (CASE f \in {"name", "unit"} -> "string"
              [] f \in {"port", "factor", "sinceUnixMs"} -> "number"
              [] f = "withMetadata" -> "bool"
              [] f \in {"values", "sensors"} -> "object"
              [] OTHER -> "missing")
      [] p = "badTypes" ->
           (CASE f \in {"name", "unit"} -> "number"
              [] f \in {"port", "factor", "sinceUnixMs"} -> "string"
              [] f = "withMetadata" -> "string"
              [] f \in {"values", "sensors"} -> "string"
              [] OTHER -> "missing")
      [] OTHER -> "missing"

\* the argument shapes: field name -> JSON type the Go field accepts
DeviceCmdUpdateArgs == {<<"values", "object">>}
DeviceCmdAddSensorArgs ==
    {<<"name", "string">>, <<"unit", "string">>,
     <<"port", "number">>, <<"factor", "number">>}
DeviceCmdRemoveSensorArgs == {<<"name", "string">>}
DeviceMetadata == {<<"name", "string">>, <<"sensors", "object">>}
UserCmdGetValuesArgs ==
    {<<"sinceUnixMs", "number">>, <<"withMetadata", "bool">>}

\* json.Unmarshal(raw, &struct): the error text, "" when it decodes.  Empty
\* input is an error, null leaves the struct alone, a non-object cannot fill
\* a struct, unknown and missing fields are ignored, a field of the wrong
\* type is an error.
Unmarshal(p, shape) ==
    CASE JSONKind(p) = "absent" -> errJSONEnd
      [] JSONKind(p) = "null" -> ""
      [] JSONKind(p) = "string" -> errJSONType
      [] OTHER ->
           IF \E ft \in shape : FieldType(p, ft[1]) \notin {"missing", ft[2]}
           THEN errJSONType
           ELSE ""

\* ------------------------------------------------------------ the messages
MessageIn == [command : AllCommands, args : Payloads]

\* MessageOut{...}: fields left out of the literal are empty ("" / -1 / Nil)
MessageOut(command, args, now, error) ==
    [command |-> command, args |-> args, now |-> now, error |-> error]

NoNow == 0 - 1

\* the value of lastReply / lastPush while nothing has been written
NoFrame == [command |-> "<none>", args |-> "", now |-> NoNow, error |-> Nil]

\* ------------------------------------------------------------------ inputs
Apis == {"device", "user"}

Keys == {<<1>>, <<2, 7>>}

RandBytes == {0, 167}

Challenges == [1..Size -> RandBytes]

Offers ==
    {{}, {otherProtocol}, {userAPIProtocolV3},
     {otherProtocol, deviceAPIProtocolV1}}

\* which delegates the owner has set, per command name
Delegates ==
    {"Update", "AddSensor", "RemoveSensor", "UpdateMetadata", "GetValues"}

HandlerSets == {{}, Delegates, {"AddSensor", "UpdateMetadata"}}

\* what a Device delegate reports (*Error)
DelegateErrors ==
    {Nil, [kind |-> "OperationFailed", message |-> "db down"],
          [kind |-> "InvalidInput", message |-> "out of range"]}

\* what the GetValues delegate reports (error text, "" is nil)
GetValuesErrors == {"", "db down"}

OtherKey(k) == IF k = <<1>> THEN <<2, 7>> ELSE <<1>>

FlipBit(bytes) ==
    [i \in 1..Len(bytes) |->
        IF i = 1
        THEN (IF bytes[1] % 2 = 0 THEN bytes[1] + 1 ELSE bytes[1] - 1)
        ELSE bytes[i]]

UpperChar(c) ==
    CASE c = "a" -> "A" [] c = "b" -> "B" [] c = "c" -> "C"
      [] c = "d" -> "D" [] c = "e" -> "E" [] c = "f" -> "F"
      [] OTHER -> c

ToUpper(s) == [i \in 1..Len(s) |-> UpperChar(s[i])]

\* what a compliant client answers to the challenge text it received: the
\* hex encoding of the digest of the decoded challenge under its key
ClientResponse(k, challenge) ==
    EncodeToString(Hmac(k, DecodeString(challenge).bytes))

\* the replies a peer gives to a challenge when the key is k: the compliant
\* one (lower and upper case hex), the digest with one bit flipped, the
\* digest under another key, the digest of the hex text instead of the raw
\* bytes, the challenge echoed, and texts that are not hex or are empty
Replies(k, challenge) ==
    {ClientResponse(k, challenge),
     ToUpper(ClientResponse(k, challenge)),
     EncodeToString(FlipBit(Hmac(k, DecodeString(challenge).bytes))),
     ClientResponse(OtherKey(k), challenge),
     EncodeToString(Hmac(k, [i \in 1..Size |-> fromHexChar(challenge[i])])),
     challenge,
     <<"z", "z">>, <<"a">>, <<>>}

\* ------------------------------------------------------------------- state
VARIABLES
    api,          \* which server this connection is: "device" or "user"
    offered,      \* the subprotocols the peer offered in its upgrade request
    key,          \* the pre-shared key the owner passes to Run
    handlers,     \* the commands whose delegate field is set
    pc,           \* where the connection's control flow stands
    subprotocol,  \* conn.Subprotocol() after the upgrade
    conn,         \* TRUE when New*Server returned a server object
    newErr,       \* the error New*Server returned ("" is nil)
    sockClosed,   \* the underlying socket has been closed by this side
    closes,       \* the close frames this side issued: [code, reason, by]
    buf,          \* the challenge bytes
    authReply,    \* the raw messages authenticate received, in order
    sent,         \* frames Run has written, per kind of frame
    proceeded,    \* the write of "proceed" succeeded
    lastReply,    \* the last frame the loop wrote in the current cycle
    lastPush,     \* the last frame the owner pushed
    pushes,       \* number of pushes so far
    nRecv,        \* envelopes successfully received by the dispatch loop
    msg,          \* the envelope of the current cycle
    calls,        \* delegate invocations so far
    cycleCalls,   \* delegate invocations in the current cycle
    cycleWrites,  \* frames the loop wrote in the current cycle
    lastCall,     \* the last delegate invoked and its arguments
    opError,      \* the opError variable of Run
    err,          \* the err variable of Run ("" is nil)
    returned,     \* Run has returned
    result,       \* what Run returned ("" is nil)
    clock,        \* the wall clock in milliseconds
    writeFailed,  \* a write of Run failed since its last successful receive
    reported,     \* what the delegate invoked in the current cycle reported
    lastNow,      \* the now of the latest success reply (NoNow when none)
    steppedBack,  \* the clock was set back since the latest success reply
    sinceUnixMs,  \* the sinceUnixMs field of the args of getValues
    withMetadata, \* the withMetadata field of the args of getValues
    passed        \* what doGetValues last passed to the GetValues delegate

config == <<api, offered, key, handlers, sinceUnixMs, withMetadata>>
nego == <<subprotocol, conn, newErr>>
auth == <<buf, authReply>>
frames == <<sent, proceeded, lastReply, cycleWrites>>
owner == <<lastPush, pushes>>
cycle == <<nRecv, msg, calls, cycleCalls, lastCall, opError>>
exit == <<err, returned, result>>
hist == <<writeFailed, reported, lastNow, steppedBack>>

vars == <<config, pc, nego, sockClosed, closes, auth, frames, owner, cycle,
          exit, clock, hist, passed>>

\* the value of passed while GetValues has not been called
NoPassed == [seconds |-> 0, nanoseconds |-> 0,
             since |-> [sec |-> 0, nsec |-> 0 - 1], withMetadata |-> FALSE]

NoMsg == [command |-> "", args |-> "absent"]
NoCall == [name |-> "", args |-> ""]
NoCount == [challenge |-> 0, proceed |-> 0, reply |-> 0]

Init ==
    /\ api \in Apis
    /\ offered \in Offers
    /\ key \in Keys
    /\ handlers \in HandlerSets
    /\ sinceUnixMs = 0
    /\ withMetadata = TRUE
    /\ passed = NoPassed
    /\ pc = "new"
    /\ subprotocol = ""
    /\ conn = FALSE
    /\ newErr = ""
    /\ sockClosed = FALSE
    /\ closes = <<>>
    /\ buf = <<>>
    /\ authReply = <<>>
    /\ sent = NoCount
    /\ proceeded = FALSE
    /\ lastReply = NoFrame
    /\ lastPush = NoFrame
    /\ pushes = 0
    /\ nRecv = 0
    /\ msg = NoMsg
    /\ calls = 0
    /\ cycleCalls = 0
    /\ cycleWrites = 0
    /\ lastCall = NoCall
    /\ opError = Nil
    /\ err = ""
    /\ returned = FALSE
    /\ result = ""
    /\ clock = 0
    /\ writeFailed = FALSE
    /\ reported = Nil
    /\ lastNow = NoNow
    /\ steppedBack = FALSE

\* ------------------------------------------------------------ the transport
\* socketWrapper.Write / WriteJSON: fails on a closed socket, and may fail on
\* an open one (the peer is gone, the network is down)
WriteOutcomes == IF sockClosed THEN {FALSE} ELSE BOOLEAN

\* socketWrapper.Receive / ReceiveJSON: the errors a read can end in
ReceiveErrors == IF sockClosed THEN {errClosed} ELSE {errEOF, errJSONSyntax}

\* socketWrapper.Close(code, reason) and conn.Close(): a close frame with
\* the code and the reason, then the socket is closed
CloseSocket(code, reason, by) ==
    /\ closes' = Append(closes, [code |-> code, reason |-> reason, by |-> by])
    /\ sockClosed' = TRUE

\* ------------------------------------------------------------- negotiation
Protocols(a) ==
    IF a = "device" THEN <<deviceAPIProtocolV1>> ELSE <<userAPIProtocolV3>>

\* Upgrader.Upgrade with Subprotocols set: the first protocol of the server's
\* list that the peer offered, "" when there is none
RECURSIVE SelectSubprotocol(_, _)
SelectSubprotocol(protocols, offer) ==
    IF protocols = <<>> THEN ""
    ELSE IF Head(protocols) \in offer THEN Head(protocols)
    ELSE SelectSubprotocol(Tail(protocols), offer)

\* a negotiator that hands out the connection whatever was selected
initAPIBaseFromSocketNoCheck(first) ==
    /\ conn' = TRUE
    /\ newErr' = ""
    /\ pc' = first
    /\ UNCHANGED <<closes, sockClosed>>

initAPIBaseFromSocket(first) ==
    IF subprotocol' = ""
    THEN /\ CloseSocket(CloseProtocolError, "", "negotiator")
         /\ conn' = FALSE
         /\ newErr' = errProtocolNegotiationFailed
         /\ pc' = "rejected"
    ELSE /\ conn' = TRUE
         /\ newErr' = ""
         /\ pc' = first
         /\ UNCHANGED <<closes, sockClosed>>

initAPIBaseFromHTTP(protocols, first) ==
    \E upgraded \in BOOLEAN :
        IF ~upgraded
        THEN /\ newErr' = errUpgrade
             /\ pc' = "rejected"
             /\ UNCHANGED <<subprotocol, conn, closes, sockClosed>>
        ELSE /\ subprotocol' = SelectSubprotocol(protocols, offered)
             /\ initAPIBaseFromSocket(first)

NewDeviceServer ==
    /\ pc = "new"
    /\ api = "device"
    /\ initAPIBaseFromHTTP(Protocols("device"), "auth")
    /\ UNCHANGED <<config, passed, auth, frames, owner, cycle, exit, clock, hist>>

NewUserServer ==
    /\ pc = "new"
    /\ api = "user"
    /\ initAPIBaseFromHTTP(Protocols("user"), "loop")
    /\ UNCHANGED <<config, passed, auth, frames, owner, cycle, exit, clock, hist>>

\* ------------------------------------------------- DeviceServer.authenticate
Count(c, kind) == [c EXCEPT ![kind] = @ + 1]

\* rand.Read and the write of the hex challenge (its error is dropped)
DeviceAuthChallenge ==
    /\ pc = "auth"
    /\ \E randOK \in BOOLEAN :
        IF ~randOK
        THEN /\ err' = errRand
             /\ pc' = "fail"
             /\ UNCHANGED <<buf, sent, writeFailed>>
        ELSE \E b \in Challenges, w \in WriteOutcomes :
             /\ buf' = b
             /\ sent' = Count(sent, "challenge")
             /\ writeFailed' = ~w
             /\ pc' = "authwait"
             /\ err' = err
    /\ UNCHANGED <<config, passed, nego, sockClosed, closes, authReply, proceeded,
                   lastReply, cycleWrites, owner, cycle, returned, result,
                   clock, reported, lastNow, steppedBack>>

\* the digest taken over the hex text of the challenge instead of its bytes
expectedMacOverHex(k, b) ==
    Hmac(k, [i \in 1..Size |-> fromHexChar(EncodeToString(b)[i])])

\* mac.Write(buf[:]) and mac.Sum(nil): the digest of the raw challenge bytes
expectedMac(k, b) == Hmac(k, b)

\* a check that decodes the reply and never compares it
authCheckNoCompare(raw, k, b) == DecodeString(raw).err

\* what authenticate returns for the raw reply, up to the write of "proceed"
authCheck(raw, k, b) ==
    LET decoded == DecodeString(raw)
        expected == expectedMac(k, b)
    IN  IF decoded.err # "" THEN decoded.err
        ELSE IF ~hmacEqual(decoded.bytes, expected)
             THEN errAuthenticationFailed
        ELSE ""

\* the receive of the reply, the comparison and the write of "proceed"
DeviceAuthResponse ==
    /\ pc = "authwait"
    /\ \/ \E e \in ReceiveErrors :
            /\ err' = e
            /\ pc' = "fail"
            /\ UNCHANGED <<authReply, sent, proceeded, writeFailed>>
       \/ /\ ~sockClosed
          /\ \E raw \in Replies(key, EncodeToString(buf)) :
               /\ authReply' = Append(authReply, raw)
               /\ IF authCheck(raw, key, buf) # ""
                  THEN /\ err' = authCheck(raw, key, buf)
                       /\ pc' = "fail"
                       /\ writeFailed' = FALSE
                       /\ UNCHANGED <<sent, proceeded>>
                  ELSE \E w \in WriteOutcomes :
                       /\ sent' = Count(sent, "proceed")
                       /\ proceeded' = w
                       /\ writeFailed' = ~w
                       /\ err' = IF w THEN "" ELSE errWrite
                       /\ pc' = IF w THEN "loop" ELSE "fail"
    /\ UNCHANGED <<config, passed, nego, sockClosed, closes, buf, lastReply,
                   cycleWrites, owner, cycle, returned, result, clock,
                   reported, lastNow, steppedBack>>

\* ------------------------------------------------------- DeviceServer.Run
Return(e) == [call |-> "", args |-> "", err |-> e, write |-> Nil]

Call(name, args) == [call |-> name, args |-> args, err |-> Nil, write |-> Nil]

\* doUpdate with the delegate looked up before the args are decoded
doUpdateLookupFirst(m) ==
    IF "Update" \notin handlers
    THEN Return(operationFailed("not supported"))
    ELSE IF Unmarshal(m.args, DeviceCmdUpdateArgs) # ""
         THEN Return(invalidInput(Unmarshal(m.args, DeviceCmdUpdateArgs), ""))
    ELSE Call("Update", m.args)

doUpdate(m) ==
    IF Unmarshal(m.args, DeviceCmdUpdateArgs) # ""
    THEN Return(invalidInput(Unmarshal(m.args, DeviceCmdUpdateArgs), ""))
    ELSE IF "Update" \notin handlers
         THEN Return(operationFailed("not supported"))
    ELSE Call("Update", m.args)

doAddSensor(m) ==
    IF Unmarshal(m.args, DeviceCmdAddSensorArgs) # ""
    THEN Return(invalidInput(Unmarshal(m.args, DeviceCmdAddSensorArgs), ""))
    ELSE IF "AddSensor" \notin handlers
         THEN Return(operationFailed("not supported"))
    ELSE Call("AddSensor", m.args)

\* doRemoveSensor testing the AddSensor field for nil
doRemoveSensorWrongField(m) ==
    IF Unmarshal(m.args, DeviceCmdRemoveSensorArgs) # ""
    THEN Return(invalidInput(Unmarshal(m.args, DeviceCmdRemoveSensorArgs), ""))
    ELSE IF "AddSensor" \notin handlers
         THEN Return(operationFailed("not supported"))
    ELSE Call("RemoveSensor", m.args)

doRemoveSensor(m) ==
    IF Unmarshal(m.args, DeviceCmdRemoveSensorArgs) # ""
    THEN Return(invalidInput(Unmarshal(m.args, DeviceCmdRemoveSensorArgs), ""))
    ELSE IF "RemoveSensor" \notin handlers
         THEN Return(operationFailed("not supported"))
    ELSE Call("RemoveSensor", m.args)

doUpdateMetadata(m) ==
    IF Unmarshal(m.args, DeviceMetadata) # ""
    THEN Return(invalidInput(Unmarshal(m.args, DeviceMetadata), ""))
    ELSE IF "UpdateMetadata" \notin handlers
         THEN Return(operationFailed("not supported"))
    ELSE Call("UpdateMetadata", m.args)

\* a switch whose default case leaves opError nil
DeviceSwitchNoDefault(m) ==
    CASE m.command = "update" -> doUpdate(m)
      [] m.command = "addSensor" -> doAddSensor(m)
      [] m.command = "removeSensor" -> doRemoveSensor(m)
      [] m.command = "updateMetadata" -> doUpdateMetadata(m)
      [] OTHER -> Return(Nil)

\* the switch on msg.Command
DeviceSwitch(m) ==
    CASE m.command = "update" -> doUpdate(m)
      [] m.command = "addSensor" -> doAddSensor(m)
      [] m.command = "removeSensor" -> doRemoveSensor(m)
      [] m.command = "updateMetadata" -> doUpdateMetadata(m)
      [] OTHER -> Return(badCommand(m.command))

\* socket.ReceiveJSON(&msg) at the head of the loop
DeviceReceive ==
    /\ pc = "loop"
    /\ api = "device"
    /\ \/ \E e \in ReceiveErrors :
            /\ err' = e
            /\ pc' = "fail"
            /\ UNCHANGED <<cycle, cycleWrites, lastReply, writeFailed,
                           reported>>
       \/ /\ ~sockClosed
          /\ nRecv < MaxCycles
          /\ \E m \in MessageIn :
               /\ msg' = m
               /\ nRecv' = nRecv + 1
               /\ cycleCalls' = 0
               /\ cycleWrites' = 0
               /\ lastReply' = NoFrame
               /\ lastCall' = NoCall
               /\ opError' = Nil
               /\ writeFailed' = FALSE
               /\ reported' = Nil
               /\ pc' = "dispatch"
               /\ UNCHANGED <<calls, err>>
    /\ UNCHANGED <<config, passed, nego, sockClosed, closes, auth, sent, proceeded,
                   owner, returned, result, clock, lastNow, steppedBack>>

\* the switch and the do* function up to the call of the delegate
DeviceDispatch ==
    /\ pc = "dispatch"
    /\ api = "device"
    /\ LET r == DeviceSwitch(msg)
       IN  IF r.call = ""
           THEN /\ opError' = r.err
                /\ pc' = "reply"
                /\ UNCHANGED <<calls, cycleCalls, lastCall>>
           ELSE /\ calls' = calls + 1
                /\ cycleCalls' = cycleCalls + 1
                /\ lastCall' = [name |-> r.call, args |-> r.args]
                /\ pc' = "delegate"
                /\ UNCHANGED opError
    /\ UNCHANGED <<config, passed, nego, sockClosed, closes, auth, frames, owner,
                   nRecv, msg, exit, clock, hist>>

\* a dispatcher that routes the envelope again when its delegate returns
DeviceDelegateReturnRedispatch ==
    /\ pc = "delegate"
    /\ api = "device"
    /\ \E e \in DelegateErrors :
        /\ reported' = e
        /\ opError' = e
    /\ pc' = "dispatch"
    /\ UNCHANGED <<config, passed, nego, sockClosed, closes, auth, frames, owner,
                   nRecv, msg, calls, cycleCalls, lastCall, exit, clock,
                   writeFailed, lastNow, steppedBack>>

\* the delegate returns its *Error, which the do* function returns as is
DeviceDelegateReturn ==
    /\ pc = "delegate"
    /\ api = "device"
    /\ \E e \in DelegateErrors :
        /\ reported' = e
        /\ opError' = e
    /\ pc' = "reply"
    /\ UNCHANGED <<config, passed, nego, sockClosed, closes, auth, frames, owner,
                   nRecv, msg, calls, cycleCalls, lastCall, exit, clock,
                   writeFailed, lastNow, steppedBack>>

\* a reply that carries now whether or not it carries an error
DeviceReplyFrameAlwaysNow(e, now) == MessageOut("", "", now, e)

\* the frame Run writes for opError at the clock reading now
DeviceReplyFrame(e, now) ==
    IF e # Nil
    THEN MessageOut("", "", NoNow, e)
    ELSE MessageOut("", "", now, Nil)

\* the write of the reply (its error is dropped) and the jump to the loop head
DeviceReply ==
    /\ pc = "reply"
    /\ api = "device"
    /\ lastReply' = DeviceReplyFrame(opError, clock)
    /\ sent' = Count(sent, "reply")
    /\ cycleWrites' = cycleWrites + 1
    /\ \E w \in WriteOutcomes : writeFailed' = ~w
    /\ IF DeviceReplyFrame(opError, clock).now # NoNow
       THEN /\ lastNow' = DeviceReplyFrame(opError, clock).now
            /\ steppedBack' = FALSE
       ELSE UNCHANGED <<lastNow, steppedBack>>
    /\ pc' = "loop"
    /\ UNCHANGED <<config, passed, nego, sockClosed, closes, auth, proceeded, owner,
                   cycle, exit, clock, reported>>

\* the fail label: close with the error text, return the error
\* the close of the fail label without the text of the error
DeviceFailCloseNoReason(e) == CloseSocket(CloseProtocolError, "", "run")

DeviceFailClose(e) == CloseSocket(CloseProtocolError, e, "run")

DeviceFail ==
    /\ pc = "fail"
    /\ DeviceFailClose(err)
    /\ returned' = TRUE
    /\ result' = err
    /\ pc' = "done"
    /\ UNCHANGED <<config, passed, nego, auth, frames, owner, cycle, err, clock,
                   hist>>

\* --------------------------------------------------------- UserServer.Run
\* Go's integer division and remainder truncate toward zero (the remainder
\* has the sign of the dividend), as does the conversion int64(f) of a
\* float; \div and % of TLA+ round down.
GoQuo(a, b) == IF a >= 0 THEN a \div b ELSE 0 - ((0 - a) \div b)

\* a remainder that is never negative
FloorRem(a, b) == a % b

GoRem(a, b) == a - b * GoQuo(a, b)

\* time.Unix(sec, nsec): nsec outside [0, 1e9) is carried into sec
timeUnix(sec, nsec) ==
    LET n == GoQuo(nsec, 1000000000)
        s1 == sec + n
        ns1 == nsec - n * 1000000000
    IN  IF ns1 < 0
        THEN [sec |-> s1 - 1, nsec |-> ns1 + 1000000000]
        ELSE [sec |-> s1, nsec |-> ns1]

\* u.GetValues(time.Unix(int64(args.SinceUnixMs/1000),
\*                       int64(args.SinceUnixMs)%1000*1e6), args.WithMetadata):
\* the two arguments of time.Unix, the instant it yields and the flag
GetValuesCall(ms, md) ==
    [seconds |-> GoQuo(ms, 1000),
     nanoseconds |-> GoRem(ms, 1000) * 1000000,
     since |-> timeUnix(GoQuo(ms, 1000), GoRem(ms, 1000) * 1000000),
     withMetadata |-> md]

doGetValues(m) ==
    IF Unmarshal(m.args, UserCmdGetValuesArgs) # ""
    THEN Return(operationFailed(Unmarshal(m.args, UserCmdGetValuesArgs)))
    ELSE IF "GetValues" \notin handlers
         THEN Return(operationFailed("not supported"))
    ELSE Call("GetValues", m.args)

\* the switch on msg.Command: the default case writes its reply itself
UserSwitch(m) ==
    CASE m.command = "getValues" -> doGetValues(m)
      [] OTHER -> [call |-> "", args |-> "", err |-> Nil,
                   write |-> badCommand(m.command)]

\* socket.ReceiveJSON(&msg) at the head of the loop; on an error the socket
\* is closed with the error text and Run returns the error
\* a close on the receive error that says going-away and gives no reason
UserFailCloseGoingAway(e) == CloseSocket(CloseGoingAway, "", "run")

UserFailClose(e) == CloseSocket(CloseProtocolError, e, "run")

UserReceive ==
    /\ pc = "loop"
    /\ api = "user"
    /\ \/ \E e \in ReceiveErrors :
            /\ UserFailClose(e)
            /\ returned' = TRUE
            /\ result' = e
            /\ pc' = "done"
            /\ UNCHANGED <<cycle, cycleWrites, lastReply, err, writeFailed,
                           reported>>
       \/ /\ ~sockClosed
          /\ nRecv < MaxCycles
          /\ \E m \in MessageIn :
               /\ msg' = m
               /\ nRecv' = nRecv + 1
               /\ cycleCalls' = 0
               /\ cycleWrites' = 0
               /\ lastReply' = NoFrame
               /\ lastCall' = NoCall
               /\ opError' = Nil
               /\ writeFailed' = FALSE
               /\ reported' = Nil
               /\ pc' = "dispatch"
               /\ UNCHANGED <<calls, exit, closes, sockClosed>>
    /\ UNCHANGED <<config, passed, nego, auth, sent, proceeded, owner, clock, lastNow,
                   steppedBack>>

\* the switch and doGetValues up to the call of the delegate
UserDispatch ==
    /\ pc = "dispatch"
    /\ api = "user"
    /\ LET r == UserSwitch(msg)
       IN  IF r.call = ""
           THEN /\ opError' = r.err
                /\ pc' = "reply"
                /\ IF r.write # Nil
                   THEN /\ lastReply' = MessageOut("", "", NoNow, r.write)
                        /\ sent' = Count(sent, "reply")
                        /\ cycleWrites' = cycleWrites + 1
                        /\ \E w \in WriteOutcomes : writeFailed' = ~w
                        /\ UNCHANGED proceeded
                   ELSE UNCHANGED <<frames, writeFailed>>
                /\ UNCHANGED <<calls, cycleCalls, lastCall, passed>>
           ELSE /\ calls' = calls + 1
                /\ cycleCalls' = cycleCalls + 1
                /\ lastCall' = [name |-> r.call, args |-> r.args]
                /\ passed' = GetValuesCall(sinceUnixMs, withMetadata)
                /\ pc' = "delegate"
                /\ UNCHANGED <<opError, frames, writeFailed>>
    /\ UNCHANGED <<config, nego, sockClosed, closes, auth, owner, nRecv, msg,
                   exit, clock, reported, lastNow, steppedBack>>

\* the failure a delegate reports as a Go error: a text and no kind
GoError(e) == IF e # "" THEN [kind |-> "error", message |-> e] ELSE Nil

\* what doGetValues returns for the error the delegate reported
GetValuesResult(e) == IF e # "" THEN operationFailed(e) ELSE Nil

UserDelegateReturn ==
    /\ pc = "delegate"
    /\ api = "user"
    /\ \E e \in GetValuesErrors :
        /\ reported' = GoError(e)
        /\ opError' = GetValuesResult(e)
    /\ pc' = "reply"
    /\ UNCHANGED <<config, passed, nego, sockClosed, closes, auth, frames, owner,
                   nRecv, msg, calls, cycleCalls, lastCall, exit, clock,
                   writeFailed, lastNow, steppedBack>>

\* the tail of the loop body: an error reply when opError is set
UserReply ==
    /\ pc = "reply"
    /\ api = "user"
    /\ IF opError # Nil
       THEN /\ lastReply' = MessageOut("", "", NoNow, opError)
            /\ sent' = Count(sent, "reply")
            /\ cycleWrites' = cycleWrites + 1
            /\ \E w \in WriteOutcomes : writeFailed' = ~w
            /\ UNCHANGED proceeded
       ELSE UNCHANGED <<frames, writeFailed>>
    /\ pc' = "loop"
    /\ UNCHANGED <<config, passed, nego, sockClosed, closes, auth, owner, cycle, exit,
                   clock, reported, lastNow, steppedBack>>

\* ---------------------------------------------------------------- the owner
Push(command, args) ==
    /\ conn
    /\ pushes < MaxPush
    /\ lastPush' = MessageOut(command, args, NoNow, Nil)
    /\ pushes' = pushes + 1
    /\ UNCHANGED <<config, passed, pc, nego, sockClosed, closes, auth, frames, cycle,
                   exit, clock, hist>>

RequestRealtimeUpdates ==
    /\ api = "device"
    /\ Push("requestRealtimeUpdates", "sensors")

SendUpdate ==
    /\ api = "user"
    /\ Push("update", "values")

SendMetadata ==
    /\ api = "user"
    /\ Push("metadata", "data")

\* a Close that writes the close frame and leaves the socket open
CloseFrameOnly ==
    /\ conn
    /\ \A i \in 1..Len(closes) : closes[i].by # "owner"
    /\ closes' = Append(closes, [code |-> CloseGoingAway, reason |-> "",
                                 by |-> "owner"])
    /\ UNCHANGED <<config, passed, pc, nego, sockClosed, auth, frames, owner, cycle,
                   exit, clock, hist>>

\* apiBase.Close, called once by the owner
Close ==
    /\ conn
    /\ \A i \in 1..Len(closes) : closes[i].by # "owner"
    /\ CloseSocket(CloseGoingAway, "", "owner")
    /\ UNCHANGED <<config, passed, pc, nego, auth, frames, owner, cycle, exit, clock,
                   hist>>

\* The clock is read in one place, the success reply of the Device loop
\* (the else branch, now := time.Now().UnixNano() / 1e6): the steps the
\* clock takes between two readings are taken at the reading, where they
\* are observed.
ClockObserved == pc = "reply" /\ api = "device" /\ opError = Nil

\* a clock that wraps to 0 past its largest value
TickWrapping ==
    /\ ClockObserved
    /\ clock' = (clock + 1) % (MaxClock + 1)
    /\ UNCHANGED <<config, passed, pc, nego, sockClosed, closes, auth, frames, owner,
                   cycle, exit, hist>>

\* the wall clock advances
Tick ==
    /\ ClockObserved
    /\ clock < MaxClock
    /\ clock' = clock + 1
    /\ UNCHANGED <<config, passed, pc, nego, sockClosed, closes, auth, frames, owner,
                   cycle, exit, hist>>

\* the wall clock is set back (time.Now().UnixNano() reads the wall clock,
\* which an administrator or a time service may step)
ClockSetBack ==
    /\ ClockObserved
    /\ \E t \in 0..(clock - 1) : clock' = t
    /\ steppedBack' = (lastNow # NoNow)
    /\ UNCHANGED <<config, passed, pc, nego, sockClosed, closes, auth, frames, owner,
                   cycle, exit, writeFailed, reported, lastNow>>

Next ==
    \/ NewDeviceServer
    \/ NewUserServer
    \/ DeviceAuthChallenge
    \/ DeviceAuthResponse
    \/ DeviceReceive
    \/ DeviceDispatch
    \/ DeviceDelegateReturn
    \/ DeviceReply
    \/ DeviceFail
    \/ UserReceive
    \/ UserDispatch
    \/ UserDelegateReturn
    \/ UserReply
    \/ RequestRealtimeUpdates
    \/ SendUpdate
    \/ SendMetadata
    \/ Close
    \/ Tick
    \/ ClockSetBack

Spec == Init /\ [][Next]_vars

\* The steps of the goroutine that runs Run, once it is in its loop or on
\* its failure path: the Go scheduler runs a runnable goroutine, a receive
\* on a closed socket returns, and a delegate that was called returns (the
\* owner's obligation).  A receive on an open socket may block for ever.
RunStep ==
    \/ (sockClosed /\ (DeviceReceive \/ UserReceive))
    \/ DeviceDispatch
    \/ DeviceDelegateReturn
    \/ DeviceReply
    \/ DeviceFail
    \/ UserDispatch
    \/ UserDelegateReturn
    \/ UserReply

\* A User connection that has received a getValues envelope whose args
\* decode, with the GetValues delegate set: sinceUnixMs and withMetadata are
\* the fields the peer sent.
InitGetValues ==
    /\ api = "user"
    /\ offered = {userAPIProtocolV3}
    /\ key \in Keys
    /\ handlers = Delegates
    /\ sinceUnixMs \in (0 - MaxMs)..MaxMs
    /\ withMetadata \in BOOLEAN
    /\ passed = NoPassed
    /\ pc = "dispatch"
    /\ subprotocol = userAPIProtocolV3
    /\ conn = TRUE
    /\ newErr = ""
    /\ sockClosed = FALSE
    /\ closes = <<>>
    /\ buf = <<>>
    /\ authReply = <<>>
    /\ sent = NoCount
    /\ proceeded = FALSE
    /\ lastReply = NoFrame
    /\ lastPush = NoFrame
    /\ pushes = 0
    /\ nRecv = 1
    /\ msg = [command |-> "getValues", args |-> "full"]
    /\ calls = 0
    /\ cycleCalls = 0
    /\ cycleWrites = 0
    /\ lastCall = NoCall
    /\ opError = Nil
    /\ err = ""
    /\ returned = FALSE
    /\ result = ""
    /\ clock = 0
    /\ writeFailed = FALSE
    /\ reported = Nil
    /\ lastNow = NoNow
    /\ steppedBack = FALSE

\* doGetValues applied to every sinceUnixMs and withMetadata
SpecGetValues == InitGetValues /\ [][UserDispatch]_vars

FairSpec == Init /\ [][Next]_vars /\ WF_vars(RunStep)

\* ------------------------------------------------------------------ claims
LoopStates == {"loop", "dispatch", "delegate", "reply"}

\* the reply to the challenge decodes to the digest of the raw challenge
\* bytes under the key
ReplyIsDigest ==
    /\ Len(authReply) >= 1
    /\ DecodeString(authReply[1]).err = ""
    /\ DecodeString(authReply[1]).bytes = Hmac(key, buf)

\* Run has closed the socket with the protocol-error code and reason r
RunClosedWith(r) ==
    \E i \in 1..Len(closes) :
        closes[i] = [code |-> CloseProtocolError, reason |-> r, by |-> "run"]

\* C1: on a Device connection, once a reply that is not the digest of the
\* challenge has been received, "proceed" is never written, Run is on its
\* failure path with a non-nil error, and when Run has returned it returned
\* that error after closing the socket with the protocol-error code and the
\* error text as the reason.
C1_MismatchFails ==
    (api = "device" /\ Len(authReply) >= 1 /\ ~ReplyIsDigest) =>
        /\ sent.proceed = 0
        /\ ~proceeded
        /\ pc \in {"fail", "done"}
        /\ err # ""
        /\ (DecodeString(authReply[1]).err = ""
              => err = errAuthenticationFailed)
        /\ pc = "done" => (returned /\ result = err /\ RunClosedWith(err))

C1_Witness ==
    /\ api = "device"
    /\ Len(authReply) = 1
    /\ DecodeString(authReply[1]).err = ""
    /\ DecodeString(authReply[1]).bytes = FlipBit(Hmac(key, buf))
    /\ pc = "done"
    /\ result = errAuthenticationFailed
    /\ RunClosedWith(errAuthenticationFailed)

\* C2: on a Device connection no envelope is received, no delegate is
\* invoked and no reply is written unless the reply to the challenge was the
\* digest and the write of "proceed" succeeded; after any failed handshake
\* the dispatch loop is never entered.
C2_NoDispatchBeforeAuth ==
    api = "device" =>
        /\ (nRecv > 0 \/ calls > 0 \/ sent.reply > 0 \/ pc \in LoopStates)
              => (ReplyIsDigest /\ sent.proceed = 1 /\ proceeded)
        /\ (pc \in {"fail", "done"} /\ ~(ReplyIsDigest /\ proceeded))
              => (nRecv = 0 /\ calls = 0 /\ sent.reply = 0
                  /\ msg = NoMsg /\ lastCall = NoCall)

C2_Witness ==
    /\ api = "device"
    /\ pc = "delegate"
    /\ calls = 1
    /\ ReplyIsDigest
    /\ proceeded

\* C3 as stated: whenever the reply received is the hex digest a compliant
\* client computes, "proceed" is written once and the dispatch loop is
\* entered.
C3_CorrectReplyEntersLoop ==
    [][(pc = "authwait" /\ Len(authReply') = 1
          /\ authReply'[1] = ClientResponse(key, EncodeToString(buf)))
        => (sent'.proceed = 1 /\ pc' = "loop")]_vars

\* C3 amended: whenever the reply received is the hex digest a compliant
\* client computes, exactly one message has been consumed by the handshake
\* and "proceed" is written exactly once; the dispatch loop is entered when
\* that write succeeds, and Run fails with the write error when it does not.
\* "proceed" is never written twice and the handshake never consumes a
\* second message.
C3_CorrectReplyProceedsOnce ==
    /\ [](sent.proceed <= 1 /\ Len(authReply) <= 1)
    /\ [][(pc = "authwait" /\ Len(authReply') = 1
            /\ authReply'[1] = ClientResponse(key, EncodeToString(buf)))
          => /\ sent'.proceed = 1
             /\ sent.proceed = 0
             /\ IF proceeded'
                THEN pc' = "loop" /\ err' = ""
                ELSE pc' = "fail" /\ err' = errWrite]_vars

C3_Witness ==
    /\ api = "device"
    /\ pc = "loop"
    /\ nRecv = 0
    /\ Len(authReply) = 1
    /\ authReply[1] = ClientResponse(key, EncodeToString(buf))
    /\ sent.proceed = 1
    /\ proceeded

Supported(a) == {Protocols(a)[i] : i \in 1..Len(Protocols(a))}

\* C4: when the peer offered none of the supported subprotocols, the
\* constructor returns an error and no server object, nothing is ever written
\* to or read from the peer, and, the upgrade having produced a socket, the
\* socket is closed with the protocol-error code; a server object is returned
\* only with a supported subprotocol the peer offered.
C4_NegotiationFailClosed ==
    /\ (pc # "new" /\ offered \cap Supported(api) = {}) =>
          /\ pc = "rejected"
          /\ ~conn
          /\ newErr # ""
          /\ newErr # errUpgrade =>
                /\ newErr = errProtocolNegotiationFailed
                /\ sockClosed
                /\ closes = <<[code |-> CloseProtocolError, reason |-> "",
                               by |-> "negotiator"]>>
          /\ sent = NoCount
          /\ authReply = <<>>
          /\ nRecv = 0
          /\ calls = 0
          /\ pushes = 0
          /\ ~returned
    /\ conn => (subprotocol \in Supported(api) \cap offered /\ newErr = "")

C4_Witness ==
    /\ pc = "rejected"
    /\ offered = {otherProtocol}
    /\ newErr = errProtocolNegotiationFailed
    /\ ~conn
    /\ Len(closes) = 1
    /\ closes[1].code = CloseProtocolError

CommandTable(a) == IF a = "device" THEN DeviceCommands ELSE UserCommands

ShapeOf(command) ==
    CASE command = "update" -> DeviceCmdUpdateArgs
      [] command = "addSensor" -> DeviceCmdAddSensorArgs
      [] command = "removeSensor" -> DeviceCmdRemoveSensorArgs
      [] command = "updateMetadata" -> DeviceMetadata
      [] OTHER -> UserCmdGetValuesArgs

DelegateOf(command) ==
    CASE command = "update" -> "Update"
      [] command = "addSensor" -> "AddSensor"
      [] command = "removeSensor" -> "RemoveSensor"
      [] command = "updateMetadata" -> "UpdateMetadata"
      [] OTHER -> "GetValues"

\* an envelope has been received and its cycle is under way or complete
InCycle == nRecv > 0 /\ pc \in LoopStates

\* the cycle of msg is complete: Run is back at the head of the loop
CycleDone == nRecv > 0 /\ pc = "loop"

Known == msg.command \in CommandTable(api)

Decodes == Unmarshal(msg.args, ShapeOf(msg.command)) = ""

RunClosed == \E i \in 1..Len(closes) : closes[i].by = "run"

\* C5: on both APIs, for an envelope whose command is not in the API's
\* command table no delegate is invoked, Run neither returns nor closes the
\* socket, and when the cycle is complete exactly one frame was written,
\* the error BadCommand with the command as its message.
C5_UnknownCommand ==
    (InCycle /\ ~Known) =>
        /\ pc # "delegate"
        /\ cycleCalls = 0
        /\ lastCall = NoCall
        /\ ~returned
        /\ ~RunClosed
        /\ pc = "loop" =>
              /\ cycleWrites = 1
              /\ lastReply = MessageOut("", "", NoNow,
                                        [kind |-> "BadCommand",
                                         message |-> msg.command])

C5_Witness ==
    /\ api = "user"
    /\ CycleDone
    /\ nRecv = 2
    /\ msg.command = "bogus"
    /\ lastReply.error = [kind |-> "BadCommand", message |-> "bogus"]
    /\ ~sockClosed

\* C6: on both APIs, for a known command whose args do not decode, the
\* reply is an error of kind InvalidInput, no delegate is invoked and Run
\* goes on.
C6_MalformedArgsInvalidInput ==
    (CycleDone /\ Known /\ ~Decodes) =>
        /\ cycleWrites = 1
        /\ lastReply.error.kind = "InvalidInput"
        /\ cycleCalls = 0
        /\ ~returned

\* C7: on both APIs, for a known command whose args decode and whose
\* delegate is unset, no delegate is invoked, Run neither returns nor closes
\* the socket, and the one reply of the cycle is the error OperationFailed
\* with the message "not supported".
C7_AbsentDelegate ==
    (InCycle /\ Known /\ Decodes /\ DelegateOf(msg.command) \notin handlers) =>
        /\ pc # "delegate"
        /\ cycleCalls = 0
        /\ ~returned
        /\ ~RunClosed
        /\ pc = "loop" =>
              /\ cycleWrites = 1
              /\ lastReply = MessageOut("", "", NoNow,
                                        [kind |-> "OperationFailed",
                                         message |-> "not supported"])

C7_Witness ==
    /\ api = "device"
    /\ CycleDone
    /\ msg = [command |-> "removeSensor", args |-> "full"]
    /\ "RemoveSensor" \notin handlers
    /\ lastReply.error.message = "not supported"

\* C8: in both dispatch loops, when Run is back at the head of the loop
\* every envelope received so far has been answered by exactly one reply.
C8_OneReplyPerEnvelope ==
    /\ cycleWrites <= 1
    /\ CycleDone => (cycleWrites = 1 /\ sent.reply = nRecv)

\* C9: when Device 'update' or User 'getValues' is dispatched with args
\* that decode and the delegate reports no failure, the reply of the cycle
\* is {now: <clock in ms>} with no error, no command and no args.
C9_SuccessAcknowledged ==
    (/\ CycleDone
     /\ msg.command = (IF api = "device" THEN "update" ELSE "getValues")
     /\ Decodes
     /\ cycleCalls = 1
     /\ opError = Nil) =>
        /\ lastReply.now \in 0..clock
        /\ lastReply.error = Nil
        /\ lastReply.command = ""
        /\ lastReply.args = ""

\* C10: in both dispatch loops a failed receive ends the loop in that step:
\* no delegate is invoked and no reply written for it, the socket is closed
\* with the protocol-error code and the text of the receive error, and Run
\* returns that error.  Delegates and replies never outnumber the envelopes
\* received.
C10_ReceiveErrorFatal ==
    /\ [](calls <= nRecv /\ sent.reply <= nRecv)
    /\ [][(pc = "loop" /\ pc' \in {"fail", "done"}) =>
            LET e == IF api = "device" THEN err' ELSE result'
            IN  /\ e \in ReceiveErrors
                /\ calls' = calls
                /\ cycleCalls' = cycleCalls
                /\ sent' = sent
                /\ lastReply' = lastReply
                /\ nRecv' = nRecv
                /\ api = "user" =>
                      /\ pc' = "done"
                      /\ returned'
                      /\ closes' = Append(closes,
                              [code |-> CloseProtocolError, reason |-> e,
                               by |-> "run"])]_vars
    /\ [][(pc = "fail" /\ pc' # "fail") =>
            /\ pc' = "done"
            /\ returned'
            /\ result' = err
            /\ calls' = calls
            /\ sent' = sent
            /\ closes' = Append(closes,
                    [code |-> CloseProtocolError, reason |-> err,
                     by |-> "run"])]_vars

C10_Witness ==
    /\ pc = "done"
    /\ nRecv = 1
    /\ returned
    /\ result = errEOF
    /\ RunClosedWith(errEOF)
    /\ sent.reply <= 1

\* C11: once a write of Run has failed (the challenge, "proceed" or a reply
\* of either loop), Run receives nothing more and invokes no further
\* delegate: the failed write ends the connection.
C11_WriteErrorFatal ==
    [][writeFailed =>
          /\ nRecv' = nRecv
          /\ authReply' = authReply
          /\ calls' = calls]_vars

\* C12: when the delegate invoked for an envelope reported a failure, the
\* reply to that envelope carries that failure as its error, kind and
\* message unchanged, on both APIs.
C12_DelegateFailureVerbatim ==
    (CycleDone /\ cycleCalls = 1 /\ reported # Nil) =>
        /\ cycleWrites = 1
        /\ lastReply.error = reported

\* C13: on one connection at most one delegate is invoked per envelope
\* received, a delegate is invoked only from the routing step of the current
\* envelope, and the next envelope is received only from the head of the
\* loop, that is after the routing, the delegate call and the reply of the
\* previous envelope are over; the peer may have any number of envelopes
\* ready (a receive is enabled whenever Run is at the head of the loop).
C13_OneDelegateNoOverlap ==
    /\ [](/\ cycleCalls <= 1
          /\ calls <= nRecv
          /\ (pc = "delegate" => cycleCalls = 1)
          /\ (pc = "dispatch" => cycleCalls = 0))
    /\ [][nRecv' # nRecv =>
            /\ pc = "loop"
            /\ pc' = "dispatch"
            /\ nRecv' = nRecv + 1
            /\ cycleCalls' = 0]_vars
    /\ [][calls' # calls =>
            /\ pc = "dispatch"
            /\ pc' = "delegate"
            /\ calls' = calls + 1
            /\ cycleCalls = 0
            /\ nRecv' = nRecv]_vars

C13_Witness ==
    /\ pc = "delegate"
    /\ nRecv = 2
    /\ calls = 2
    /\ cycleCalls = 1
    /\ sent.reply >= 1

\* a step of the Device loop that writes a success reply
SuccessReplyStep ==
    /\ api = "device"
    /\ pc = "reply"
    /\ pc' = "loop"
    /\ opError = Nil

\* C14 as stated: the now of a success reply is never below the now of the
\* success reply before it on the same connection.
C14_NowNonDecreasing ==
    [][(SuccessReplyStep /\ lastNow # NoNow) => lastReply'.now >= lastNow]_vars

\* C14 amended: every success reply carries the reading of the wall clock at
\* the reply, and it is not below the now of the success reply before it
\* provided the wall clock was not set back between the two replies.
C14_NowIsWallClock ==
    [][SuccessReplyStep =>
          /\ lastReply'.now = clock
          /\ lastNow' = clock
          /\ (lastNow # NoNow /\ ~steppedBack) => lastReply'.now >= lastNow]_vars

\* a second success reply is about to be written, the first carried now = 0
\* and the clock has advanced since without being set back
C14_Witness ==
    /\ api = "device"
    /\ pc = "reply"
    /\ opError = Nil
    /\ nRecv = 2
    /\ lastNow = 0
    /\ clock = 1
    /\ ~steppedBack

\* the shapes an outbound message populates
HasPush(f) == f.command # "" \/ f.args # ""
HasNow(f) == f.now # NoNow
HasError(f) == f.error # Nil

PushCommands(a) ==
    IF a = "device" THEN {"requestRealtimeUpdates"} ELSE {"update", "metadata"}

\* C15: every JSON message written populates exactly one shape: a reply of a
\* dispatch loop carries either now or error and neither command nor args,
\* a push of the owner carries command and args and neither now nor error,
\* wherever the push falls relative to the cycles of the loop.
C15_ExactlyOneShape ==
    /\ lastReply # NoFrame =>
          /\ ~HasPush(lastReply)
          /\ HasNow(lastReply) # HasError(lastReply)
    /\ lastPush # NoFrame =>
          /\ lastPush.command \in PushCommands(api)
          /\ lastPush.args # ""
          /\ ~HasNow(lastPush)
          /\ ~HasError(lastPush)

\* a push was written and the loop has written an error reply
C15_Witness ==
    /\ CycleDone
    /\ lastPush # NoFrame
    /\ HasError(lastReply)
    /\ pushes = 1
    /\ sent.reply = 2

\* C16: when the reply to the challenge is not valid hex, Run ends as it
\* does for a well-formed wrong digest: it returns the authentication-failed
\* error, the close frame carries that text, and "proceed" is not written.
C16_NonHexIsAuthFailure ==
    (/\ api = "device"
     /\ pc = "done"
     /\ Len(authReply) = 1
     /\ DecodeString(authReply[1]).err # "") =>
        /\ result = errAuthenticationFailed
        /\ RunClosedWith(errAuthenticationFailed)
        /\ sent.proceed = 0

\* C17: the args are decoded before the delegate is looked up.  A known
\* command whose args do not decode is answered with the decode error, with
\* no delegate invoked, whether or not its delegate is set; the reply
\* "not supported" is written only for a known command whose args decoded
\* and whose delegate is unset; the bad-command reply only for an unknown
\* command.
C17_DecodeBeforeLookup ==
    /\ (CycleDone /\ Known /\ ~Decodes) =>
          /\ cycleCalls = 0
          /\ cycleWrites = 1
          /\ lastReply.error.kind \notin {"nil", "BadCommand"}
          /\ lastReply.error.message =
                Unmarshal(msg.args, ShapeOf(msg.command))
          /\ lastReply.error.message # "not supported"
    /\ (CycleDone /\ cycleCalls = 0
           /\ lastReply.error = operationFailed("not supported")) =>
          /\ Known
          /\ Decodes
          /\ DelegateOf(msg.command) \notin handlers
    /\ (CycleDone /\ lastReply.error.kind = "BadCommand") => ~Known

\* malformed args for a command whose delegate is unset
C17_Witness ==
    /\ api = "device"
    /\ CycleDone
    /\ msg = [command |-> "update", args |-> "badTypes"]
    /\ "Update" \notin handlers
    /\ lastReply.error = invalidInput(errJSONType, "")

\* the close frames Run has written
RunCloses == {i \in 1..Len(closes) : closes[i].by = "run"}

\* C18: Run returns only a non-nil error, and only together with its one
\* close of the socket, which carries the protocol-error code and the text
\* of the returned error; Run does not close before it returns; once it
\* has closed and returned it writes nothing, receives nothing and invokes
\* no delegate; and on its failure path the only step it takes is that
\* close and return, the failed operation is not tried again.
C18_EveryExitFatal ==
    /\ [](/\ returned =>
               /\ pc = "done"
               /\ result # ""
               /\ Cardinality(RunCloses) = 1
               /\ RunClosedWith(result)
          /\ ~returned => RunCloses = {})
    /\ [][returned =>
            /\ returned'
            /\ result' = result
            /\ pc' = pc
            /\ sent' = sent
            /\ lastReply' = lastReply
            /\ nRecv' = nRecv
            /\ authReply' = authReply
            /\ calls' = calls
            /\ Cardinality(RunCloses') = 1]_vars
    /\ [][pc = "fail" =>
            /\ pc' \in {"fail", "done"}
            /\ sent' = sent
            /\ nRecv' = nRecv
            /\ authReply' = authReply
            /\ calls' = calls]_vars

\* Run has returned from its loop after the owner's close
C18_Witness ==
    /\ returned
    /\ nRecv = 2
    /\ Len(closes) = 2
    /\ closes[1].by = "owner"
    /\ closes[2] = [code |-> CloseProtocolError, reason |-> errClosed,
                    by |-> "run"]
    /\ result = errClosed

OwnerClosed == \E i \in 1..Len(closes) : closes[i].by = "owner"

\* C19: after the owner's Close() no receive of the loop succeeds, so no
\* envelope is received and no delegate is invoked except the one of the
\* envelope that was already being handled; and, delegates returning, Run
\* returns a non-nil error.
C19_CloseCancels ==
    /\ [][OwnerClosed =>
            /\ nRecv' = nRecv
            /\ msg' = msg
            /\ (pc \in {"loop", "reply", "fail", "done"} => calls' = calls)]_vars
    /\ ((OwnerClosed /\ pc \in LoopStates) ~> (returned /\ result # ""))

\* the owner closed while a delegate was running, and Run has returned the
\* error of the receive that followed
C19_Witness ==
    /\ returned
    /\ result = errClosed
    /\ OwnerClosed
    /\ nRecv = 1
    /\ calls = 1
    /\ sent.reply = 1
    /\ writeFailed

\* C20: for every sinceUnixMs, negative and not a multiple of 1000 included,
\* the seconds and nanoseconds doGetValues computes add up to sinceUnixMs
\* milliseconds, the instant time.Unix makes of them is sinceUnixMs
\* milliseconds after the epoch, and withMetadata is passed as received.
C20_SinceExact ==
    passed # NoPassed =>
        /\ passed.nanoseconds
              = (sinceUnixMs - passed.seconds * 1000) * 1000000
        /\ sinceUnixMs - passed.seconds * 1000 \in (0 - 999)..999
        /\ passed.since.nsec \in 0..999999999
        /\ passed.since.nsec % 1000000 = 0
        /\ passed.since.sec * 1000 + passed.since.nsec \div 1000000
              = sinceUnixMs
        /\ passed.withMetadata = withMetadata

\* a negative sinceUnixMs that is not a multiple of 1000
C20_Witness ==
    /\ pc = "delegate"
    /\ sinceUnixMs = 0 - 1500
    /\ passed.seconds = 0 - 1
    /\ passed.nanoseconds = 0 - 500000000
    /\ passed.since = [sec |-> 0 - 2, nsec |-> 500000000]
    /\ ~passed.withMetadata

====
